---- MODULE Spec2Model ----
(***************************************************************************)
(* A model of backend/server.py: the in-memory credential store, the JWT   *)
(* session scheme, the per-user LLM API key, the upload-pdf / generate /   *)
(* download handlers with their awaits, and the lesson plan renderer.      *)
(*                                                                         *)
(* A handler runs atomically between two awaits (asyncio, one event loop). *)
(* A request that is suspended at an await sits in a slot of `inflight`.   *)
(***************************************************************************)
EXTENDS Integers, Sequences, FiniteSets, TLC

VARIABLES
    users_db,        \* server.py:46   email -> user_data
    now,             \* datetime.utcnow(), in hours
    system_key,      \* os.environ.get('EMERGENT_LLM_KEY'), or NoKey
    inflight,        \* slot -> the request suspended at an await, or Idle
    lesson_plans,    \* db.lesson_plans
    pdf_extractions, \* db.pdf_extractions
    temp_files,      \* the temporary files that exist on disk
    resp,            \* the last response sent, with the request it answers
    reqs,            \* number of requests received so far
    held,            \* the token a client keeps from a signup/login response
    registered,      \* history: email -> the signup request that created it
    content, story   \* the renderer's input and output (SpecRender)

vars == <<users_db, now, system_key, inflight, lesson_plans,
          pdf_extractions, temp_files, resp, reqs, held, registered,
          content, story>>

serverVars == <<users_db, now, system_key, inflight, lesson_plans,
                pdf_extractions, temp_files, resp, reqs, held, registered>>

renderVars == <<content, story>>

(***************************************************************************)
(* Bounds of the model.                                                    *)
(***************************************************************************)
MaxRequests == 3
MaxInflight == 2
MaxTime == 36
TickHours == 12

(***************************************************************************)
(* Program constants.                                                      *)
(***************************************************************************)
JWT_SECRET == "server-secret"
JWT_EXPIRATION_HOURS == 24

(***************************************************************************)
(* Input domains.                                                          *)
(***************************************************************************)
Emails == {"a@uni", "b@uni"}
Passwords == {"pw1", "pw2"}
\* UserSignup without its email: two requests that differ in every field.
SignupForms ==
    { [firstName |-> "Ann", lastName |-> "Lee", institution |-> "Uni A",
       department |-> "Maths", password |-> "pw1", newsletter |-> FALSE],
      [firstName |-> "Bob", lastName |-> "Ray", institution |-> "Uni B",
       department |-> "Physics", password |-> "pw2", newsletter |-> TRUE] }

NoKey == "<None>"                 \* Python None in an api_key position
CandidateKeys == {"", "k1", "k2"} \* ApiKeyValidation.apiKey: any str
SystemKey == "sys"

NoToken == [none |-> TRUE]
Idle == [route |-> "idle"]
NoResp == [route |-> "none", status |-> 0]

Slots == 1..MaxInflight

\* uuid.uuid4(): a fresh identifier.  A request draws at most one (the id of
\* the User, PDFExtractionResult or LessonPlan it creates), so the ordinal
\* of the request names it.
uuid4(rid) == <<"uuid", rid>>

(***************************************************************************)
(* Password hashing: SHA-256 hex digest, a one-way injective tagging.      *)
(***************************************************************************)
hash_password(password) == <<"sha256", password>>

verify_password(password, hashed) == <<"sha256", password>> = hashed

(***************************************************************************)
(* Session tokens.  A token is its payload plus the key that signed it.    *)
(***************************************************************************)
\* A token minted with no validity period.
create_jwt_token_no_horizon(user_data, t) ==
    [user_id |-> user_data.id,
     email   |-> user_data.email,
     exp     |-> t,
     sig     |-> JWT_SECRET]

create_jwt_token(user_data, t) ==
    [user_id |-> user_data.id,
     email   |-> user_data.email,
     exp     |-> t + JWT_EXPIRATION_HOURS,
     sig     |-> JWT_SECRET]

\* Verification that never looks at the exp claim.
verify_jwt_token_no_expiry(token, t) ==
    IF token.sig # JWT_SECRET
    THEN {[ok |-> FALSE, status |-> 401, detail |-> "Invalid token"]}
    ELSE {[ok |-> TRUE, email |-> token.email]}

\* Verification that never checks the signature.
verify_jwt_token_no_signature(token, t) ==
    IF token.exp < t
    THEN {[ok |-> FALSE, status |-> 401, detail |-> "Token has expired"]}
    ELSE {[ok |-> TRUE, email |-> token.email]}

\* jwt.decode checks the signature first, then the exp claim.  PyJWT 1.x
\* rejects exp < now, PyJWT 2.x rejects exp <= now: at now = exp either
\* outcome is possible, so the result is a set of outcomes.
verify_jwt_token(token, t) ==
    IF token.sig # JWT_SECRET
    THEN {[ok |-> FALSE, status |-> 401, detail |-> "Invalid token"]}
    ELSE IF token.exp < t
    THEN {[ok |-> FALSE, status |-> 401, detail |-> "Token has expired"]}
    ELSE IF token.exp = t
    THEN {[ok |-> FALSE, status |-> 401, detail |-> "Token has expired"],
          [ok |-> TRUE, email |-> token.email]}
    ELSE {[ok |-> TRUE, email |-> token.email]}

\* The user record is returned by reference: the handler's current_user is
\* the dict stored under users_db[email], so it is modelled by its key.
get_current_user(token, t, db) ==
    { IF ~p.ok THEN p
      ELSE IF p.email \notin DOMAIN db
      THEN [ok |-> FALSE, status |-> 401, detail |-> "User not found"]
      ELSE [ok |-> TRUE, email |-> p.email]
      : p \in verify_jwt_token(token, t) }

\* The bearer credentials a client can present: the token it holds, that
\* token with a broken signature, and tokens the server never minted (signed
\* with the server secret or not) for any email.
ForeignTokens ==
    { [user_id |-> uuid4(0), email |-> e, exp |-> MaxTime + JWT_EXPIRATION_HOURS,
       sig |-> s] : e \in Emails, s \in {JWT_SECRET, "other-secret"} }

Presentable ==
    ForeignTokens \cup
    (IF held = NoToken THEN {}
     ELSE {held.token, [held.token EXCEPT !.sig = "other-secret"]})

(***************************************************************************)
(* Exceptions: the class, and for an HTTPException its status and detail.  *)
(***************************************************************************)
HTTPException(status, detail) ==
    [exc |-> "HTTPException", status |-> status, detail |-> detail]

Raised(class) == [exc |-> class, status |-> 0, detail |-> ""]

(***************************************************************************)
(* LLM client construction.                                                *)
(***************************************************************************)
Falsy(api_key) == api_key = NoKey \/ api_key = ""

\* get_llm_chat: the system key, or HTTPException(500) when not configured.
get_llm_chat(sys) ==
    IF Falsy(sys)
    THEN [ok |-> FALSE,
          exc |-> HTTPException(500, "LLM API key not configured")]
    ELSE [ok |-> TRUE, api_key |-> sys]

get_user_llm_chat(api_key, sys) ==
    IF Falsy(api_key)
    THEN get_llm_chat(sys)
    ELSE [ok |-> TRUE, api_key |-> api_key]

(***************************************************************************)
(* Models.                                                                 *)
(***************************************************************************)
User(id, user_data, t) ==
    [id            |-> id,
     firstName     |-> user_data.firstName,
     lastName      |-> user_data.lastName,
     email         |-> user_data.email,
     institution   |-> user_data.institution,
     department    |-> user_data.department,
     password_hash |-> hash_password(user_data.password),
     api_key       |-> NoKey,
     newsletter    |-> user_data.newsletter,
     created_at    |-> t]

UserResponse(user) ==
    [id |-> user.id, firstName |-> user.firstName, lastName |-> user.lastName,
     email |-> user.email, institution |-> user.institution,
     department |-> user.department, hasApiKey |-> ~Falsy(user.api_key)]

\* A store that forgets every other key when one is written.
Put_only(f, k, v) == [x \in {k} |-> v]

\* f extended (or overwritten) at key k with value v.
Put(f, k, v) == [x \in DOMAIN f \cup {k} |-> IF x = k THEN v ELSE f[x]]

FreeSlots == {s \in Slots : inflight[s] = Idle}

LowestFree == CHOOSE x \in FreeSlots : \A y \in FreeSlots : x <= y

CanReceive == reqs < MaxRequests

\* What a client does with a token it is handed: keep it, or keep its own.
Keep(token, via) ==
    \/ held' = [token |-> token, iat |-> now, via |-> via]
    \/ held' = held

\* A duplicate check that never finds the email.
EmailTaken_never(email, db) == FALSE

\* server.py:385: the email is already a key of the user store
EmailTaken(email, db) == email \in DOMAIN db

(***************************************************************************)
(* POST /auth/signup                                                       *)
(***************************************************************************)
signup(user_data) ==
    /\ CanReceive
    /\ reqs' = reqs + 1
    /\ IF EmailTaken(user_data.email, users_db)
       THEN /\ resp' = [route |-> "signup", status |-> 400,
                        detail |-> "Email already registered"]
            /\ UNCHANGED <<users_db, registered, held>>
       ELSE LET user == User(uuid4(reqs + 1), user_data, now)
                token == create_jwt_token(user, now)
            IN /\ users_db' = Put(users_db, user.email, user)
               /\ registered' = Put(registered, user.email, user_data)
               /\ resp' = [route |-> "signup", status |-> 200,
                           email |-> user.email]
               /\ Keep(token, "signup")
    /\ UNCHANGED <<now, system_key, inflight, lesson_plans, pdf_extractions,
                   temp_files>>

(***************************************************************************)
(* POST /auth/login                                                        *)
(***************************************************************************)
login(login_data) ==
    /\ CanReceive
    /\ reqs' = reqs + 1
    /\ IF login_data.email \notin DOMAIN users_db
       THEN /\ resp' = [route |-> "login", status |-> 401,
                        detail |-> "Invalid email or password"]
            /\ UNCHANGED held
       ELSE LET user == users_db[login_data.email] IN
            IF ~verify_password(login_data.password, user.password_hash)
            THEN /\ resp' = [route |-> "login", status |-> 401,
                             detail |-> "Invalid email or password"]
                 /\ UNCHANGED held
            ELSE LET token == create_jwt_token(user, now) IN
                 /\ resp' = [route |-> "login", status |-> 200,
                             email |-> user.email]
                 /\ Keep(token, "login")
    /\ UNCHANGED <<users_db, now, system_key, inflight,
                   lesson_plans, pdf_extractions, temp_files, registered>>

(***************************************************************************)
(* Depends(get_current_user) failing: the route's body never runs.         *)
(***************************************************************************)
Unauthorized(route, token, auth) ==
    /\ resp' = [route |-> route, status |-> auth.status,
                detail |-> auth.detail]
    /\ UNCHANGED <<users_db, inflight, lesson_plans,
                   pdf_extractions, temp_files>>

(***************************************************************************)
(* GET /auth/profile                                                       *)
(***************************************************************************)
get_profile(token) ==
    /\ CanReceive
    /\ reqs' = reqs + 1
    /\ \E auth \in get_current_user(token, now, users_db) :
         IF ~auth.ok
         THEN Unauthorized("profile", token, auth)
         ELSE /\ resp' = [route |-> "profile", status |-> 200,
                          email |-> auth.email]
              /\ UNCHANGED <<users_db, inflight, lesson_plans,
                             pdf_extractions, temp_files>>
    /\ UNCHANGED <<now, system_key, held, registered>>

(***************************************************************************)
(* POST /auth/validate-api-key                                             *)
(***************************************************************************)
\* Up to `await chat.send_message(test_message)`.
validate_api_key(token, apiKey) ==
    /\ CanReceive
    /\ reqs' = reqs + 1
    /\ \E auth \in get_current_user(token, now, users_db) :
         IF ~auth.ok
         THEN Unauthorized("validate", token, auth)
         ELSE LET chat == get_user_llm_chat(apiKey, system_key) IN
              IF ~chat.ok
              THEN \* HTTPException(500) caught by `except Exception`
                   /\ resp' = [route |-> "validate", status |-> 400,
                               detail |-> "Invalid API key or failed to connect to Gemini API"]
                   /\ UNCHANGED <<users_db, inflight, lesson_plans,
                                  pdf_extractions, temp_files>>
              ELSE /\ FreeSlots # {}
                   /\ inflight' = [inflight EXCEPT ![LowestFree] =
                          [route |-> "validate", pc |-> "llm",
                           rid |-> reqs + 1, email |-> auth.email, apiKey |-> apiKey,
                           llm_key |-> chat.api_key]]
                   /\ UNCHANGED <<users_db, lesson_plans,
                                  pdf_extractions, temp_files, resp>>
    /\ UNCHANGED <<now, system_key, held, registered>>

\* A handler that stores the candidate whatever the probe did.
validate_api_key_resume_always_stores(s, ok) ==
    /\ inflight[s].route = "validate"
    /\ LET r == inflight[s] IN
       /\ users_db' = [users_db EXCEPT ![r.email].api_key = r.apiKey]
       /\ resp' = [route |-> "validate", status |-> IF ok THEN 200 ELSE 400,
                   email |-> r.email]
    /\ inflight' = [inflight EXCEPT ![s] = Idle]
    /\ UNCHANGED <<now, system_key, lesson_plans, pdf_extractions,
                   temp_files, reqs, held, registered>>

\* The probe returns (ok) or raises (~ok); the handler resumes.
validate_api_key_resume(s, ok) ==
    /\ inflight[s].route = "validate"
    /\ LET r == inflight[s] IN
       IF ok
       THEN /\ users_db' = [users_db EXCEPT ![r.email].api_key = r.apiKey]
            /\ resp' = [route |-> "validate", status |-> 200,
                        email |-> r.email]
       ELSE /\ resp' = [route |-> "validate", status |-> 400,
                        detail |-> "Invalid API key or failed to connect to Gemini API"]
            /\ UNCHANGED users_db
    /\ inflight' = [inflight EXCEPT ![s] = Idle]
    /\ UNCHANGED <<now, system_key, lesson_plans, pdf_extractions,
                   temp_files, reqs, held, registered>>

(***************************************************************************)
(* Text.  A string is a sequence of tokens: words, the whitespace tokens   *)
(* " " and "\n", and the markers the code looks for.                       *)
(***************************************************************************)
Whitespace == {" ", "\n"}

RECURSIVE LStrip(_)
LStrip(s) ==
    IF s # <<>> /\ Head(s) \in Whitespace THEN LStrip(Tail(s)) ELSE s

RECURSIVE RStrip(_)
RStrip(s) ==
    IF s # <<>> /\ s[Len(s)] \in Whitespace
    THEN RStrip(SubSeq(s, 1, Len(s) - 1))
    ELSE s

\* str.strip()
Strip(s) == RStrip(LStrip(s))

\* str.startswith(prefix)
StartsWith(s, prefix) ==
    Len(s) >= Len(prefix) /\ SubSeq(s, 1, Len(prefix)) = prefix

\* str.replace(old, ''), old not empty
RECURSIVE Remove(_, _)
Remove(s, old) ==
    IF s = <<>> THEN <<>>
    ELSE IF StartsWith(s, old)
    THEN Remove(SubSeq(s, Len(old) + 1, Len(s)), old)
    ELSE <<Head(s)>> \o Remove(Tail(s), old)

(***************************************************************************)
(* extract_text_from_pdf                                                   *)
(***************************************************************************)
MaxPages == 2

\* What page.extract_text() does on a page: raise, or return its text.
PageKinds ==
    { [raises |-> TRUE,  text |-> <<>>],
      [raises |-> FALSE, text |-> <<" ">>],
      [raises |-> FALSE, text |-> <<"Week", " ", "1">>] }

RECURSIVE SeqsUpTo(_, _)
SeqsUpTo(S, n) ==
    IF n = 0 THEN {<<>>}
    ELSE LET shorter == SeqsUpTo(S, n - 1) IN
         shorter \cup {Append(q, x) : q \in shorter, x \in S}

\* An uploaded file: bytes PdfReader cannot parse, or a sequence of pages.
PdfFiles ==
    {[parsable |-> FALSE, pages |-> <<>>]} \cup
    {[parsable |-> TRUE, pages |-> ps] : ps \in SeqsUpTo(PageKinds, MaxPages)}

\* The loop over reader.pages: a page that raises is skipped, a page whose
\* text strips to nothing adds nothing.
RECURSIVE PagesText(_)
PagesText(pages) ==
    IF pages = <<>> THEN <<>>
    ELSE LET page == Head(pages) IN
         (IF ~page.raises /\ Strip(page.text) # <<>>
          THEN page.text \o <<"\n">>
          ELSE <<>>) \o PagesText(Tail(pages))

extract_text_from_pdf(file) ==
    IF ~file.parsable
    THEN [ok |-> FALSE,
          exc |-> HTTPException(400, "Unable to process this PDF format")]
    ELSE LET text == PagesText(file.pages) IN
         IF Strip(text) = <<>>
         THEN [ok |-> FALSE,
               exc |-> HTTPException(400, "No readable text found in the PDF")]
         ELSE [ok |-> TRUE, text |-> text]

(***************************************************************************)
(* JSON values: tagged, so that isinstance() can be asked of them.         *)
(***************************************************************************)
JNull == [t |-> "null"]
JStr(s) == [t |-> "str", v |-> s]
JList(q) == [t |-> "list", v |-> q]
JObj(f) == [t |-> "obj", v |-> f]

\* bool(value)
Truthy(j) ==
    CASE j.t = "null" -> FALSE
      [] j.t = "str"  -> j.v # ""
      [] j.t = "list" -> j.v # <<>>
      [] j.t = "obj"  -> DOMAIN j.v # {}

\* dict.get(key, default)
Get(obj, key, default) == IF key \in DOMAIN obj.v THEN obj.v[key] ELSE default

\* The documents the LLM may put in its answer, by the token that stands
\* for their text.
JsonDocs ==
    [ doc_ok |->
        JObj([subject_names |-> JList(<<"Biology 101">>),
              lecture_topics |-> JList(<<"Cells">>),
              lecture_focus_mapping |->
                  JObj([Cells |-> JList(<<"Mitosis">>)])]),
      doc_str_mapping |->
        JObj([subject_names |-> JList(<<"Biology 101">>),
              lecture_topics |-> JList(<<"Cells">>),
              lecture_focus_mapping |-> JStr("Cells: Mitosis")]),
      doc_null_mapping |->
        JObj([lecture_topics |-> JList(<<"Cells">>),
              lecture_focus_mapping |-> JNull]),
      doc_null_topics |->
        JObj([subject_names |-> JList(<<"Biology 101">>),
              lecture_topics |-> JNull,
              lecture_focus_mapping |-> JStr("Cells: Mitosis")]),
      doc_str_names |->
        JObj([subject_names |-> JStr("Biology 101"),
              lecture_topics |-> JList(<<>>),
              lecture_focus_mapping |-> JStr("")]),
      doc_foreign_key |->
        JObj([subject_names |-> JList(<<"Biology 101">>),
              lecture_topics |-> JList(<<"Cells">>),
              lecture_focus_mapping |->
                  JObj([Genetics |-> JList(<<"DNA">>)])]),
      doc_empty |->
        JObj([subject_names |-> JList(<<>>),
              lecture_topics |-> JList(<<>>),
              lecture_focus_mapping |-> JStr("none")]),
      doc_array |-> JList(<<"Biology 101">>) ]

DocTokens == DOMAIN JsonDocs

\* json.loads: surrounding whitespace is allowed, anything else around or
\* instead of one document is a JSONDecodeError.
json_loads(text) ==
    LET body == Strip(text) IN
    IF Len(body) = 1 /\ body[1] \in DocTokens
    THEN [ok |-> TRUE, value |-> JsonDocs[body[1]]]
    ELSE [ok |-> FALSE, exc |-> Raised("JSONDecodeError")]

\* What chat.send_message can return for the extraction prompt.  The token
\* "<fence>" stands for the three backquotes of a Markdown code fence.
LlmTexts ==
    UNION { { <<d>>,
              <<"<fence>", "json", "\n", d, "\n", "<fence>">>,
              <<"<fence>", "\n", d, "\n", "<fence>", "\n">>,
              <<"Here", " ", "it", " ", "is:", "\n", "<fence>", "json", "\n", d,
                "\n", "<fence>">> } : d \in DocTokens }
    \cup { <<"<fence>", "JSON", "\n", "doc_ok", "\n", "<fence>">>,
           <<"Sorry,", " ", "no.">> }

\* server.py:552-556: the code fence is stripped when the text starts with it
clean_response(response) ==
    LET response_text == Strip(response) IN
    IF StartsWith(response_text, <<"<fence>", "json">>)
    THEN Strip(Remove(Remove(response_text, <<"<fence>", "json">>), <<"<fence>">>))
    ELSE IF StartsWith(response_text, <<"<fence>">>)
    THEN Strip(Remove(response_text, <<"<fence>">>))
    ELSE response_text

\* pydantic: a List[str] field takes a list (of strings)
IsListOfStr(j) == j.t = "list"

\* pydantic: a Dict[str, List[str]] field takes an object of such lists
IsDictOfLists(j) ==
    j.t = "obj" /\ \A k \in DOMAIN j.v : IsListOfStr(j.v[k])

\* No leniency: the mapping is passed on as the LLM gave it.
coerce_mapping_never(mapping) == mapping

\* server.py:571-572: a mapping that is no dict is replaced by {}
coerce_mapping(mapping) == IF mapping.t # "obj" THEN JObj(<<>>) ELSE mapping

\* server.py:550-580: from the answer of the LLM to the PDFExtractionResult, or
\* to the exception raised on the way.
parse_llm_response(response, id, filename, t) ==
    LET loaded == json_loads(clean_response(response)) IN
    IF ~loaded.ok
    THEN \* server.py:587-588
         [ok |-> FALSE,
          exc |-> HTTPException(500, "Failed to parse LLM response")]
    ELSE LET extracted_data == loaded.value IN
    IF extracted_data.t # "obj"
    THEN [ok |-> FALSE, exc |-> Raised("AttributeError")]
    ELSE LET subject_names == Get(extracted_data, "subject_names", JList(<<>>))
             lecture_topics == Get(extracted_data, "lecture_topics", JList(<<>>))
             mapping == Get(extracted_data, "lecture_focus_mapping",
                            JObj(<<>>))
         IN
    IF ~(Truthy(subject_names) \/ Truthy(lecture_topics))
    THEN [ok |-> FALSE,
          exc |-> HTTPException(400,
                                "Could not extract meaningful data from PDF")]
    ELSE LET lecture_focus_mapping == coerce_mapping(mapping) IN
    IF ~(/\ IsListOfStr(subject_names)
         /\ IsListOfStr(lecture_topics)
         /\ IsDictOfLists(lecture_focus_mapping))
    THEN [ok |-> FALSE, exc |-> Raised("ValidationError")]
    ELSE [ok |-> TRUE,
          result |-> [id |-> id,
                      filename |-> filename,
                      subject_names |-> subject_names.v,
                      lecture_topics |-> lecture_topics.v,
                      lecture_focus_mapping |-> lecture_focus_mapping.v,
                      extracted_at |-> t]]

(***************************************************************************)
(* The lesson plan renderer.                                               *)
(***************************************************************************)
\* str.split(sep): the pieces between non-overlapping occurrences of sep,
\* found left to right.
RECURSIVE SplitFrom(_, _, _)
SplitFrom(s, sep, piece) ==
    IF s = <<>> THEN <<piece>>
    ELSE IF StartsWith(s, sep)
    THEN <<piece>> \o SplitFrom(SubSeq(s, Len(sep) + 1, Len(s)), sep, <<>>)
    ELSE SplitFrom(Tail(s), sep, Append(piece, Head(s)))

Split(s, sep) == SplitFrom(s, sep, <<>>)

\* The words a lesson plan is written in here, by their letters: upper-case
\* only, with a lower-case letter, or with no letter at all.
UpperWords == {"OBJECTIVES", "LONGHEADING"}
LowerWords == {"Intro", "minutes", "minutes)"}

\* Number of characters of a token.
CharLen(tok) == IF tok = "LONGHEADING" THEN 100 ELSE 1

RECURSIVE Chars(_)
Chars(s) == IF s = <<>> THEN 0 ELSE CharLen(Head(s)) + Chars(Tail(s))

\* str.isupper(): some cased character, and no lower-case one
IsUpper(s) ==
    /\ \E i \in 1..Len(s) : s[i] \in UpperWords
    /\ \A i \in 1..Len(s) : s[i] \notin LowerWords

Contains(s, tok) == \E i \in 1..Len(s) : s[i] = tok

EndsWith(s, tok) == s # <<>> /\ s[Len(s)] = tok

Paragraph(text, style) == [style |-> style, text |-> text]
Spacer(h) == [style |-> "Spacer", text |-> <<>>]

\* server.py:343-357: the lines under a section heading
RECURSIVE HeadingBlockLines(_)
HeadingBlockLines(lines) ==
    IF lines = <<>> THEN <<>>
    ELSE LET line == Strip(Head(lines))
             rest == HeadingBlockLines(Tail(lines))
         IN IF line = <<>> THEN rest
            ELSE IF (Contains(line, "(") /\ Contains(line, "minutes)"))
                    \/ EndsWith(line, "minutes")
            THEN <<Paragraph(line, "SubsectionHeading")>> \o rest
            ELSE IF StartsWith(line, <<"- ">>)
            THEN <<Paragraph(<<"* ">> \o Tail(line), "BulletStyle")>> \o rest
            ELSE <<Paragraph(line, "Normal"), Spacer(6)>> \o rest

\* server.py:360-371: the lines of a block that has no section heading
RECURSIVE RegularBlockLines(_)
RegularBlockLines(lines) ==
    IF lines = <<>> THEN <<>>
    ELSE LET line == Strip(Head(lines))
             rest == RegularBlockLines(Tail(lines))
         IN IF line = <<>> THEN rest
            ELSE IF StartsWith(line, <<"- ">>)
            THEN <<Paragraph(<<"* ">> \o Tail(line), "BulletStyle")>> \o rest
            ELSE <<Paragraph(line, "Normal"), Spacer(6)>> \o rest

\* server.py:329-371: one block of the content
RenderSection(block) ==
    LET section == Strip(block) IN
    IF section = <<>> THEN <<>>
    ELSE LET lines == Split(section, <<"\n">>)
             first_line == Strip(lines[1])
         IN IF IsUpper(first_line) /\ Chars(first_line) < 100
            THEN <<Paragraph(first_line, "SectionHeading")>>
                 \o HeadingBlockLines(Tail(lines))
            ELSE RegularBlockLines(lines)

RECURSIVE RenderSections(_)
RenderSections(sections) ==
    IF sections = <<>> THEN <<>>
    ELSE RenderSection(Head(sections)) \o RenderSections(Tail(sections))

\* The story handed to doc.build: title, details table, then the content.
generate_lesson_plan_pdf(text) ==
    <<Paragraph(<<"LESSON", " ", "PLAN">>, "CustomTitle"), Spacer(20),
      [style |-> "Table", text |-> <<>>], Spacer(30)>>
    \o RenderSections(Split(text, <<"\n", "\n">>))

(***************************************************************************)
(* Temporary files.                                                        *)
(***************************************************************************)
Unbound == <<"unbound">>

\* tempfile.NamedTemporaryFile(delete=False, suffix='.pdf') in request rid
TempPath(rid) == <<"tmp", rid>>

\* server.py:593-596.  temp_file is None or the file object; temp_file_path
\* is Unbound when the assignment at line 507 was never reached, and then
\* evaluating it raises UnboundLocalError.
upload_finally(files, temp_file_is_none, temp_file_path) ==
    IF temp_file_is_none
    THEN [raised |-> FALSE, files |-> files]
    ELSE IF temp_file_path = Unbound
    THEN [raised |-> TRUE, files |-> files]
    ELSE [raised |-> FALSE,
          files |-> {f \in files : f.path # temp_file_path}]

\* server.py:590-591: every exception, HTTPException included, becomes 500
upload_except(e) ==
    [route |-> "upload", status |-> 500, detail |-> "Failed to process PDF",
     cause |-> e]

(***************************************************************************)
(* POST /upload-pdf                                                        *)
(***************************************************************************)
Filenames == { <<"OUTLINE", ".PDF">>, <<"notes", ".txt">> }

\* str.lower()
LowerTok(tok) ==
    CASE tok = "OUTLINE" -> "outline"
      [] tok = ".PDF" -> ".pdf"
      [] OTHER -> tok

Lower(s) == [i \in 1..Len(s) |-> LowerTok(s[i])]

\* What the file system does to the request: nothing, or NamedTemporaryFile
\* raises, or shutil.copyfileobj raises.
IoOutcomes == {"ok", "create_fails", "copy_fails"}

\* Up to `await chat.send_message(user_message)`.
upload_pdf(token, filename, file, io) ==
    /\ CanReceive
    /\ reqs' = reqs + 1
    /\ \E auth \in get_current_user(token, now, users_db) :
         IF ~auth.ok
         THEN Unauthorized("upload", token, auth)
         ELSE IF ~EndsWith(Lower(filename), ".pdf")
         THEN /\ resp' = [route |-> "upload", status |-> 400,
                          detail |-> "File must be a PDF"]
              /\ UNCHANGED <<users_db, inflight, lesson_plans, pdf_extractions,
                             temp_files>>
         ELSE IF io = "create_fails"
         THEN /\ resp' = upload_except(Raised("OSError"))
              /\ temp_files' =
                     upload_finally(temp_files, TRUE, Unbound).files
              /\ UNCHANGED <<users_db, inflight, lesson_plans, pdf_extractions>>
         ELSE
         LET rid == reqs + 1
             path == TempPath(rid)
             created == temp_files \cup
                            {[path |-> path, by |-> "upload", data |-> <<>>]}
         IN
         IF io = "copy_fails"
         THEN \* the finally clause raises in place of the HTTPException
              /\ resp' = [route |-> "upload", status |-> 500,
                          detail |-> "Internal Server Error",
                          cause |-> Raised("UnboundLocalError")]
              /\ temp_files' = upload_finally(created, FALSE, Unbound).files
              /\ UNCHANGED <<users_db, inflight, lesson_plans, pdf_extractions>>
         ELSE
         LET extracted == extract_text_from_pdf(file)
             chat == get_user_llm_chat(users_db[auth.email].api_key,
                                       system_key)
         IN
         IF ~extracted.ok
         THEN /\ resp' = upload_except(extracted.exc)
              /\ temp_files' = upload_finally(created, FALSE, path).files
              /\ UNCHANGED <<users_db, inflight, lesson_plans, pdf_extractions>>
         ELSE IF ~chat.ok
         THEN /\ resp' = upload_except(chat.exc)
              /\ temp_files' = upload_finally(created, FALSE, path).files
              /\ UNCHANGED <<users_db, inflight, lesson_plans, pdf_extractions>>
         ELSE /\ FreeSlots # {}
              /\ inflight' = [inflight EXCEPT ![LowestFree] =
                     [route |-> "upload", pc |-> "llm", rid |-> rid,
                      email |-> auth.email, filename |-> filename,
                      temp_file_path |-> path, llm_key |-> chat.api_key]]
              /\ temp_files' = created
              /\ UNCHANGED <<users_db, lesson_plans, pdf_extractions, resp>>
    /\ UNCHANGED <<now, system_key, held, registered>>

\* chat.send_message returns (answer.ok, with its text) or raises; then up
\* to `await db.pdf_extractions.insert_one(result.dict())`.
upload_pdf_resume_llm(s, answer) ==
    /\ inflight[s].route = "upload"
    /\ inflight[s].pc = "llm"
    /\ LET r == inflight[s]
           parsed == parse_llm_response(answer.text, uuid4(r.rid), r.filename,
                                        now)
       IN
       IF ~answer.ok
       THEN /\ resp' = upload_except(Raised("LlmError"))
            /\ temp_files' =
                   upload_finally(temp_files, FALSE, r.temp_file_path).files
            /\ inflight' = [inflight EXCEPT ![s] = Idle]
       ELSE IF ~parsed.ok
       THEN \* a JSONDecodeError is first turned into HTTPException(500)
            /\ resp' = upload_except(parsed.exc)
            /\ temp_files' =
                   upload_finally(temp_files, FALSE, r.temp_file_path).files
            /\ inflight' = [inflight EXCEPT ![s] = Idle]
       ELSE /\ inflight' = [inflight EXCEPT ![s] =
                   [route |-> "upload", pc |-> "insert", rid |-> r.rid,
                    email |-> r.email, filename |-> r.filename,
                    temp_file_path |-> r.temp_file_path,
                    llm_key |-> r.llm_key, result |-> parsed.result]]
            /\ UNCHANGED <<temp_files, resp>>
    /\ UNCHANGED <<users_db, now, system_key, lesson_plans, pdf_extractions,
                   reqs, held, registered>>

\* insert_one returns (ok) or raises; the handler returns the result.
upload_pdf_resume_insert(s, ok) ==
    /\ inflight[s].route = "upload"
    /\ inflight[s].pc = "insert"
    /\ LET r == inflight[s] IN
       /\ IF ok
          THEN /\ pdf_extractions' = pdf_extractions \cup {r.result}
               /\ resp' = [route |-> "upload", status |-> 200,
                           result |-> r.result]
          ELSE /\ resp' = upload_except(Raised("PyMongoError"))
               /\ UNCHANGED pdf_extractions
       /\ temp_files' =
              upload_finally(temp_files, FALSE, r.temp_file_path).files
    /\ inflight' = [inflight EXCEPT ![s] = Idle]
    /\ UNCHANGED <<users_db, now, system_key, lesson_plans, reqs, held,
                   registered>>

(***************************************************************************)
(* POST /generate-lesson-plan                                              *)
(***************************************************************************)
LessonPlanRequests ==
    { [subject_name |-> "Biology 101", lecture_topic |-> "Cells",
       focus_topic |-> "", blooms_taxonomy |-> "Apply",
       aqf_level |-> "AQF Level 7 - Bachelor Degree",
       lesson_duration |-> "1 hour"] }

\* What chat.send_message can return for the generation prompt.
PlanTexts ==
    { <<"OBJECTIVES", "\n", "- ", "Intro">>,
      <<"Intro", " ", "(", "minutes)", "\n", "- ", "Intro">> }

\* server.py:686-687
generate_except(e) ==
    [route |-> "generate", status |-> 500,
     detail |-> "Failed to generate lesson plan", cause |-> e]

\* Up to `await chat.send_message(user_message)`.
generate_lesson_plan(token, request) ==
    /\ CanReceive
    /\ reqs' = reqs + 1
    /\ \E auth \in get_current_user(token, now, users_db) :
         IF ~auth.ok
         THEN Unauthorized("generate", token, auth)
         ELSE LET chat == get_user_llm_chat(users_db[auth.email].api_key,
                                            system_key) IN
              IF ~chat.ok
              THEN /\ resp' = generate_except(chat.exc)
                   /\ UNCHANGED <<users_db, inflight, lesson_plans,
                                  pdf_extractions, temp_files>>
              ELSE /\ FreeSlots # {}
                   /\ inflight' = [inflight EXCEPT ![LowestFree] =
                          [route |-> "generate", pc |-> "llm",
                           rid |-> reqs + 1, email |-> auth.email,
                           request |-> request, llm_key |-> chat.api_key]]
                   /\ UNCHANGED <<users_db, lesson_plans, pdf_extractions,
                                  temp_files, resp>>
    /\ UNCHANGED <<now, system_key, held, registered>>

generate_lesson_plan_resume_llm(s, answer) ==
    /\ inflight[s].route = "generate"
    /\ inflight[s].pc = "llm"
    /\ LET r == inflight[s] IN
       IF ~answer.ok
       THEN /\ resp' = generate_except(Raised("LlmError"))
            /\ inflight' = [inflight EXCEPT ![s] = Idle]
       ELSE /\ inflight' = [inflight EXCEPT ![s] =
                   [route |-> "generate", pc |-> "insert", rid |-> r.rid,
                    email |-> r.email, llm_key |-> r.llm_key,
                    lesson_plan |-> [id |-> uuid4(r.rid),
                                     request_data |-> r.request,
                                     content |-> answer.text,
                                     generated_at |-> now]]]
            /\ UNCHANGED resp
    /\ UNCHANGED <<users_db, now, system_key, lesson_plans, pdf_extractions,
                   temp_files, reqs, held, registered>>

generate_lesson_plan_resume_insert(s, ok) ==
    /\ inflight[s].route = "generate"
    /\ inflight[s].pc = "insert"
    /\ LET r == inflight[s] IN
       IF ok
       THEN /\ lesson_plans' = lesson_plans \cup {r.lesson_plan}
            /\ resp' = [route |-> "generate", status |-> 200,
                        id |-> r.lesson_plan.id]
       ELSE /\ resp' = generate_except(Raised("PyMongoError"))
            /\ UNCHANGED lesson_plans
    /\ inflight' = [inflight EXCEPT ![s] = Idle]
    /\ UNCHANGED <<users_db, now, system_key, pdf_extractions, temp_files,
                   reqs, held, registered>>

(***************************************************************************)
(* GET /download-lesson-plan/{lesson_plan_id}                              *)
(***************************************************************************)
\* server.py:712-713: every exception, HTTPException included, becomes 500
download_except(e) ==
    [status |-> 500, detail |-> "Failed to generate PDF", cause |-> e]

\* db.lesson_plans.find_one({"id": lesson_plan_id})
find_one(collection, id) ==
    IF \E d \in collection : d.id = id
    THEN {CHOOSE d \in collection : d.id = id}
    ELSE {}

\* The handler from the moment find_one answers (found) or raises (~db_ok).
download_lesson_plan(lesson_plan_id, db_ok) ==
    /\ CanReceive
    /\ reqs' = reqs + 1
    /\ LET found == find_one(lesson_plans, lesson_plan_id)
           out == IF ~db_ok THEN download_except(Raised("PyMongoError"))
                  ELSE IF found = {}
                  THEN download_except(
                           HTTPException(404, "Lesson plan not found"))
                  ELSE [status |-> 200, detail |-> "file",
                        cause |-> Raised("")]
       IN /\ resp' = [route |-> "download", status |-> out.status,
                      detail |-> out.detail, cause |-> out.cause,
                      lesson_plan_id |-> lesson_plan_id,
                      persisted |-> found # {}]
          /\ IF out.status = 200
             THEN \E lesson_plan \in found :
                    temp_files' = temp_files \cup
                      {[path |-> TempPath(reqs + 1), by |-> "download",
                        data |-> generate_lesson_plan_pdf(lesson_plan.content)]}
             ELSE UNCHANGED temp_files
    /\ UNCHANGED <<users_db, now, system_key, inflight, lesson_plans,
                   pdf_extractions, held, registered>>

(***************************************************************************)
(* The clock.                                                              *)
(***************************************************************************)
Tick ==
    /\ now + TickHours <= MaxTime
    /\ now' = now + TickHours
    /\ UNCHANGED <<users_db, system_key, inflight, lesson_plans,
                   pdf_extractions, temp_files, resp, reqs, held, registered>>
    /\ UNCHANGED renderVars

InitServer ==
    /\ users_db = <<>>
    /\ now = 0
    /\ system_key \in {NoKey, SystemKey}
    /\ inflight = [s \in Slots |-> Idle]
    /\ lesson_plans = {}
    /\ pdf_extractions = {}
    /\ temp_files = {}
    /\ resp = NoResp
    /\ reqs = 0
    /\ held = NoToken
    /\ registered = <<>>

Init ==
    /\ InitServer
    /\ content = <<>>
    /\ story = <<>>

SignupRequests ==
    { [firstName |-> f.firstName, lastName |-> f.lastName, email |-> e,
       institution |-> f.institution, department |-> f.department,
       password |-> f.password, newsletter |-> f.newsletter]
      : e \in Emails, f \in SignupForms }

LoginRequests == [email : Emails, password : Passwords]

Signup ==
    /\ \E user_data \in SignupRequests : signup(user_data)
    /\ UNCHANGED renderVars

Login ==
    /\ \E login_data \in LoginRequests : login(login_data)
    /\ UNCHANGED renderVars

GetProfile ==
    /\ \E token \in Presentable : get_profile(token)
    /\ UNCHANGED renderVars

ValidateApiKey ==
    /\ \E token \in Presentable, apiKey \in CandidateKeys :
          validate_api_key(token, apiKey)
    /\ UNCHANGED renderVars

ValidateApiKeyResume ==
    /\ \E s \in Slots, ok \in BOOLEAN : validate_api_key_resume(s, ok)
    /\ UNCHANGED renderVars

LlmAnswers ==
    {[ok |-> FALSE, text |-> <<>>]} \cup {[ok |-> TRUE, text |-> x] : x \in LlmTexts}

PlanAnswers ==
    {[ok |-> FALSE, text |-> <<>>]} \cup {[ok |-> TRUE, text |-> x] : x \in PlanTexts}

\* The uploads a client can send and what the file system does to each.
\* The file is read only when the name is accepted and the copy succeeds,
\* so the other cases are listed with one file.
AnyFile == [parsable |-> FALSE, pages |-> <<>>]

Uploads ==
    { u \in [filename : Filenames, file : PdfFiles, io : IoOutcomes] :
        \/ u.io = "ok" /\ EndsWith(Lower(u.filename), ".pdf")
        \/ u.file = AnyFile /\ u.io = "ok"
        \/ u.file = AnyFile /\ EndsWith(Lower(u.filename), ".pdf") }

UploadPdf ==
    /\ \E token \in Presentable, u \in Uploads :
          upload_pdf(token, u.filename, u.file, u.io)
    /\ UNCHANGED renderVars

UploadPdfResumeLlm ==
    /\ \E s \in Slots, answer \in LlmAnswers : upload_pdf_resume_llm(s, answer)
    /\ UNCHANGED renderVars

UploadPdfResumeInsert ==
    /\ \E s \in Slots, ok \in BOOLEAN : upload_pdf_resume_insert(s, ok)
    /\ UNCHANGED renderVars

GenerateLessonPlan ==
    /\ \E token \in Presentable, request \in LessonPlanRequests :
          generate_lesson_plan(token, request)
    /\ UNCHANGED renderVars

GenerateLessonPlanResumeLlm ==
    /\ \E s \in Slots, answer \in PlanAnswers :
          generate_lesson_plan_resume_llm(s, answer)
    /\ UNCHANGED renderVars

GenerateLessonPlanResumeInsert ==
    /\ \E s \in Slots, ok \in BOOLEAN :
          generate_lesson_plan_resume_insert(s, ok)
    /\ UNCHANGED renderVars

UnknownId == uuid4(0)

DownloadLessonPlan ==
    /\ \E id \in {d.id : d \in lesson_plans} \cup {UnknownId},
          db_ok \in BOOLEAN : download_lesson_plan(id, db_ok)
    /\ UNCHANGED renderVars

Next ==
    \/ Signup
    \/ Login
    \/ GetProfile
    \/ ValidateApiKey
    \/ ValidateApiKeyResume
    \/ UploadPdf
    \/ UploadPdfResumeLlm
    \/ UploadPdfResumeInsert
    \/ GenerateLessonPlan
    \/ GenerateLessonPlanResumeLlm
    \/ GenerateLessonPlanResumeInsert
    \/ DownloadLessonPlan
    \/ Tick

Spec == Init /\ [][Next]_vars

(***************************************************************************)
(* The renderer on its own: every content of up to MaxContentLen tokens.   *)
(***************************************************************************)
MaxContentLen == 4

RenderTokens ==
    {"OBJECTIVES", "LONGHEADING", "Intro", "(", "minutes)", "minutes", "- ",
     " ", "\n"}

InitRender ==
    /\ InitServer
    /\ content \in SeqsUpTo(RenderTokens, MaxContentLen)
    /\ story = <<>>

Render ==
    /\ story = <<>>
    /\ story' = generate_lesson_plan_pdf(content)
    /\ UNCHANGED <<content, serverVars>>

NextRender == Render

SpecRender == InitRender /\ [][NextRender]_vars

(***************************************************************************)
(* The gated routes, as one step taken with a given bearer token.          *)
(***************************************************************************)
GatedRequest(token) ==
    \/ get_profile(token)
    \/ \E apiKey \in CandidateKeys : validate_api_key(token, apiKey)
    \/ \E u \in Uploads : upload_pdf(token, u.filename, u.file, u.io)
    \/ \E request \in LessonPlanRequests : generate_lesson_plan(token, request)

GatedRoutes == {"profile", "validate", "upload", "generate"}

\* What every step that receives a request on a gated route shows.
GatedStep ==
    /\ reqs' = reqs + 1
    /\ inflight' # inflight \/ resp'.route \in GatedRoutes

\* The handler body left no trace: no LLM call or insert pending, no
\* document, no temporary file, no change of the user store.
NoBodyEffect ==
    UNCHANGED <<users_db, inflight, lesson_plans, pdf_extractions, temp_files>>

(***************************************************************************)
(* C1                                                                      *)
(***************************************************************************)
\* Before its 24 hours are over, a token obtained by login authenticates as
\* the user it was issued to, whatever happened since.
C1_TokenAccepted ==
    (held # NoToken /\ held.via = "login"
        /\ now < held.iat + JWT_EXPIRATION_HOURS) =>
      /\ held.token.email \in DOMAIN registered
      /\ get_current_user(held.token, now, users_db)
             = {[ok |-> TRUE, email |-> held.token.email]}
      /\ users_db[held.token.email].email = held.token.email
      /\ users_db[held.token.email].id = held.token.user_id

\* A login with the email and password of a signup that succeeded succeeds
\* and hands out a token for that email.
C1_LoginSucceeds ==
    \A e \in DOMAIN registered :
        login([email |-> e, password |-> registered[e].password]) =>
            /\ resp'.route = "login" /\ resp'.status = 200 /\ resp'.email = e
            /\ \/ held' = held
               \/ held'.via = "login" /\ held'.token.email = e
                    /\ held'.iat = now

\* C1: after a signup that succeeded, a later login with the same email and
\* password succeeds in every reachable state, and the token it returns is
\* accepted by get_current_user until its expiry, as that user.
C1_SignupThenLogin == []C1_TokenAccepted /\ [][C1_LoginSucceeds]_vars

\* A login token still accepted after the clock moved and after an API key
\* was attached to the user in between.
C1_Witness ==
    /\ held # NoToken /\ held.via = "login"
    /\ held.iat < now /\ now < held.token.exp
    /\ users_db[held.token.email].api_key # NoKey
    /\ resp.route = "validate" /\ resp.status = 200

(***************************************************************************)
(* C2                                                                      *)
(***************************************************************************)
C2_DuplicateSignupStep ==
    \A user_data \in SignupRequests :
        (user_data.email \in DOMAIN users_db /\ signup(user_data)) =>
            /\ resp'.route = "signup" /\ resp'.status = 400
            /\ resp'.detail = "Email already registered"
            /\ users_db' = users_db

\* C2: a signup with an email that is already a key of users_db fails with
\* 400 and leaves users_db as it was: the record of that email keeps every
\* field and no record is added or changed.
C2_DuplicateSignupRejected == [][C2_DuplicateSignupStep]_vars

\* A duplicate signup was refused while the store holds a record.
C2_Witness ==
    /\ resp.route = "signup" /\ resp.status = 400
    /\ DOMAIN users_db # {}
    /\ \E e \in DOMAIN users_db : users_db[e].created_at < now

(***************************************************************************)
(* C3                                                                      *)
(***************************************************************************)
C3_ExpiredStep ==
    \A token \in Presentable :
        token.exp < now =>
            /\ \A a \in get_current_user(token, now, users_db) :
                   ~a.ok /\ a.status = 401
            /\ (GatedStep /\ GatedRequest(token)) =>
                   /\ resp'.route \in GatedRoutes /\ resp'.status = 401
                   /\ token.sig = JWT_SECRET =>
                          resp'.detail = "Token has expired"
                   /\ NoBodyEffect

\* C3: a token presented after the expiry embedded in it is rejected with
\* 401, valid signature and registered user notwithstanding, and the gated
\* route it was presented to does nothing.
C3_ExpiredTokenRejected == [][C3_ExpiredStep]_vars

\* A properly signed token of a registered user was refused as expired.
C3_Witness ==
    /\ resp.route \in GatedRoutes /\ resp.status = 401
    /\ resp.detail = "Token has expired"
    /\ held # NoToken /\ held.token.exp < now
    /\ held.token.sig = JWT_SECRET
    /\ held.token.email \in DOMAIN users_db

(***************************************************************************)
(* C4                                                                      *)
(***************************************************************************)
BadToken(token) ==
    \/ token.exp < now
    \/ token.sig # JWT_SECRET
    \/ token.email \notin DOMAIN users_db

C4_RejectedStep ==
    \A token \in Presentable :
        (BadToken(token) /\ GatedStep /\ GatedRequest(token)) =>
            /\ resp'.route \in GatedRoutes /\ resp'.status = 401
            /\ NoBodyEffect

\* C4: on each of the four gated routes a token that is expired, badly
\* signed or names an email that is not in users_db is answered 401 and the
\* body does not run: no LLM call, no insert, no temporary file, no change
\* of users_db.
C4_GatedRoutesRequireAuth == [][C4_RejectedStep]_vars

\* upload-pdf refused a properly signed token that names an unknown email,
\* while another user is registered.
C4_Witness ==
    /\ resp.route = "upload" /\ resp.status = 401
    /\ resp.detail = "User not found"
    /\ DOMAIN users_db # {}

(***************************************************************************)
(* C5                                                                      *)
(***************************************************************************)
\* The stored key is written by a probe that returned, with its candidate,
\* and by nothing else; a probe that raised leaves the store alone.
C5_StoredIffProbeReturned ==
    /\ \A s \in Slots :
         /\ validate_api_key_resume(s, FALSE) =>
                resp'.status = 400 /\ users_db' = users_db
         /\ validate_api_key_resume(s, TRUE) =>
                /\ resp'.status = 200
                /\ users_db'[inflight[s].email].api_key = inflight[s].apiKey
    /\ (\E e \in DOMAIN users_db : users_db'[e].api_key # users_db[e].api_key)
           => \E s \in Slots : validate_api_key_resume(s, TRUE)

\* An LLM call started by upload-pdf or generate-lesson-plan for a user who
\* has a stored key is made with that key.
C5_StoredKeyIsUsed ==
    \A s \in Slots :
        (/\ inflight[s] = Idle
         /\ inflight'[s].route \in {"upload", "generate"}) =>
            LET stored == users_db[inflight'[s].email].api_key IN
            stored # NoKey => inflight'[s].llm_key = stored

\* C5: validate-api-key stores the candidate key if and only if the probe
\* returned without error (a failed probe answers 400 and changes nothing),
\* and the stored key is the key of the later upload-pdf and
\* generate-lesson-plan calls of that user.
C5_KeyStoredIffProbeSucceeds ==
    [][C5_StoredIffProbeReturned /\ C5_StoredKeyIsUsed]_vars

(***************************************************************************)
(* C6                                                                      *)
(***************************************************************************)
\* C6: a download of an id under which no lesson plan is persisted is
\* answered 404 (when the database answered the lookup at all).
C6_UnknownIdIs404 ==
    (/\ resp.route = "download"
     /\ ~resp.persisted
     /\ resp.cause.exc # "PyMongoError") => resp.status = 404

(***************************************************************************)
(* C7                                                                      *)
(***************************************************************************)
\* No page of the file gives text, or the file cannot be parsed.
Unreadable(file) ==
    \/ ~file.parsable
    \/ \A i \in 1..Len(file.pages) :
           file.pages[i].raises \/ Strip(file.pages[i].text) = <<>>

NamedPdf(filename) == filename[Len(filename)] \in {".pdf", ".PDF"}

C7_UploadStep ==
    \A token \in Presentable, u \in Uploads :
        (/\ ~BadToken(token) /\ token.exp > now
         /\ GatedStep
         /\ upload_pdf(token, u.filename, u.file, u.io)) =>
            /\ ~NamedPdf(u.filename) => resp'.status = 400
            /\ (NamedPdf(u.filename) /\ u.io = "ok" /\ Unreadable(u.file)) =>
                   resp'.status = 400

C7_Only500ForPipeline ==
    (resp.route = "upload" /\ resp.status = 500) =>
        ~(resp.cause.exc = "HTTPException" /\ resp.cause.status = 400)

\* C7: upload-pdf by an authenticated user answers 400 to a name that is
\* not a PDF name and 400 to an unreadable PDF; 500 is kept for errors of
\* the pipeline, never given to an error raised as a 400.
C7_UploadStatusCodes == []C7_Only500ForPipeline /\ [][C7_UploadStep]_vars

(***************************************************************************)
(* C8                                                                      *)
(***************************************************************************)
\* C8: a temporary file made by upload-pdf exists only while its request is
\* being handled: once the handler returned or raised, the file is gone.
C8_TempFileRemoved ==
    \A f \in temp_files :
        f.by = "upload" =>
            \E s \in Slots : /\ inflight[s].route = "upload"
                             /\ inflight[s].temp_file_path = f.path

(***************************************************************************)
(* C9                                                                      *)
(***************************************************************************)
\* The non-empty lines of a content, stripped.
ContentLines(text) ==
    LET pieces == Split(text, <<"\n">>) IN
    {Strip(pieces[i]) : i \in 1..Len(pieces)} \ {<<>>}

MinutesLine(line) ==
    \/ Contains(line, "(") /\ Contains(line, "minutes)")
    \/ EndsWith(line, "minutes")

StoryHas(p) == \E i \in 1..Len(story) : story[i] = p

\* C9: every non-empty line of the content that contains "(" and "minutes)"
\* or ends with "minutes" is rendered as a subsection heading, and not as a
\* paragraph or a bullet, in a block with a section heading or without.
C9_MinutesLinesAreSubsections ==
    story # <<>> =>
        \A line \in ContentLines(content) :
            MinutesLine(line) =>
                /\ StoryHas(Paragraph(line, "SubsectionHeading"))
                /\ ~StoryHas(Paragraph(line, "Normal"))
                /\ ~StoryHas(Paragraph(<<"* ">> \o Tail(line), "BulletStyle"))

(***************************************************************************)
(* C10                                                                     *)
(***************************************************************************)
\* The answers that carry document d alone, bare or inside a code fence.
Wrappings(d) ==
    { <<d>>,
      <<"<fence>", "json", "\n", d, "\n", "<fence>">>,
      <<"<fence>", "\n", d, "\n", "<fence>", "\n">> }

Field(doc, key) == IF key \in DOMAIN doc.v THEN doc.v[key] ELSE JList(<<>>)

\* A JSON object with a non-empty subject_names or lecture_topics and a
\* lecture_focus_mapping that is present and not an object.
NonObjectMapping(d) ==
    LET doc == JsonDocs[d] IN
    /\ doc.t = "obj"
    /\ Truthy(Field(doc, "subject_names")) \/ Truthy(Field(doc, "lecture_topics"))
    /\ "lecture_focus_mapping" \in DOMAIN doc.v
    /\ doc.v["lecture_focus_mapping"].t # "obj"

\* Both lists are lists (or absent).
ListsAreLists(d) ==
    LET doc == JsonDocs[d] IN
    /\ Field(doc, "subject_names").t = "list"
    /\ Field(doc, "lecture_topics").t = "list"

\* The response handling goes on to the insert with the lists of the
\* document and an empty mapping.
LenientResult(s, d) ==
    /\ inflight'[s].route = "upload" /\ inflight'[s].pc = "insert"
    /\ inflight'[s].result.subject_names
           = Field(JsonDocs[d], "subject_names").v
    /\ inflight'[s].result.lecture_topics
           = Field(JsonDocs[d], "lecture_topics").v
    /\ DOMAIN inflight'[s].result.lecture_focus_mapping = {}

C10_OriginalStep ==
    \A s \in Slots, d \in DocTokens : \A text \in Wrappings(d) :
        (/\ NonObjectMapping(d)
         /\ inflight[s].route = "upload" /\ inflight'[s] # inflight[s]
         /\ upload_pdf_resume_llm(s, [ok |-> TRUE, text |-> text])) =>
            LenientResult(s, d)

\* C10 as stated: whenever the parsed JSON has a non-empty subject_names or
\* lecture_topics and a lecture_focus_mapping that is not an object, the
\* response handling succeeds with the mapping {}.
C10_LenientWheneverNonObjectMapping == [][C10_OriginalStep]_vars

C10_ParseStep ==
    \A s \in Slots, d \in DocTokens : \A text \in Wrappings(d) :
        (/\ NonObjectMapping(d) /\ ListsAreLists(d)
         /\ inflight[s].route = "upload" /\ inflight'[s] # inflight[s]
         /\ upload_pdf_resume_llm(s, [ok |-> TRUE, text |-> text])) =>
            LenientResult(s, d)

C10_InsertStep ==
    \A s \in Slots :
        upload_pdf_resume_insert(s, TRUE) =>
            /\ resp'.status = 200
            /\ resp'.result = inflight[s].result
            /\ inflight[s].result \in pdf_extractions'

\* C10, amended: when moreover subject_names and lecture_topics are each a
\* list or absent, the response handling builds the result with those lists
\* and the mapping {}, and that result is what is persisted and returned
\* when the insert succeeds.
C10_LenientOnNonObjectMapping ==
    [][C10_ParseStep /\ C10_InsertStep]_vars

\* An upload answered 200 with the lists of the document whose mapping is a
\* string, an empty mapping, and the same result persisted.
C10_Witness ==
    /\ resp.route = "upload" /\ resp.status = 200
    /\ resp.result.subject_names = <<"Biology 101">>
    /\ resp.result.lecture_topics = <<"Cells">>
    /\ DOMAIN resp.result.lecture_focus_mapping = {}
    /\ resp.result \in pdf_extractions
(***************************************************************************)
(* C11                                                                     *)
(***************************************************************************)
Elements(q) == {q[i] : i \in 1..Len(q)}

KeysAreTopics(result) ==
    DOMAIN result.lecture_focus_mapping \subseteq Elements(result.lecture_topics)

\* C11: in every PDFExtractionResult that upload-pdf persisted or returned,
\* the keys of lecture_focus_mapping are all elements of lecture_topics.
C11_MappingKeysAreTopics ==
    /\ \A result \in pdf_extractions : KeysAreTopics(result)
    /\ (resp.route = "upload" /\ resp.status = 200) =>
           KeysAreTopics(resp.result)
(***************************************************************************)
(* C12                                                                     *)
(***************************************************************************)
\* Every record of the user store stays under its email, and stays what it
\* was in every field but api_key; the signup data on file for it stays too.
C12_RecordsKept ==
    \A e \in DOMAIN users_db :
        /\ e \in DOMAIN users_db'
        /\ [users_db'[e] EXCEPT !.api_key = users_db[e].api_key] = users_db[e]
        /\ e \in DOMAIN registered' /\ registered'[e] = registered[e]

\* A login or profile request, answered or refused, writes nothing.
C12_ReadOnlyStep ==
    (reqs' = reqs + 1 /\ resp'.route \in {"login", "profile"}) =>
        users_db' = users_db

\* But for api_key, a record is the User built from the data of its signup.
C12_AsSetAtSignup ==
    /\ DOMAIN users_db = DOMAIN registered
    /\ \A e \in DOMAIN users_db :
           /\ users_db[e].email = e
           /\ [users_db[e] EXCEPT !.api_key = NoKey]
                  = User(users_db[e].id, registered[e], users_db[e].created_at)

\* C12: whatever the requests, every user record ever created is still in
\* the store under its email with all fields but api_key as set at signup;
\* login and profile change nothing in the store.
C12_UserRecordsOnlyGainKeys ==
    []C12_AsSetAtSignup /\ [][C12_RecordsKept /\ C12_ReadOnlyStep]_vars

\* A user whose key was attached and who then logged in: the record has been
\* through signup, validate-api-key and login.
C12_Witness ==
    /\ resp.route = "login" /\ resp.status = 200
    /\ \E e \in DOMAIN users_db :
           /\ resp.email = e
           /\ users_db[e].api_key \in {"k1", "k2"}
(***************************************************************************)
(* C13                                                                     *)
(***************************************************************************)
\* A signup runs from its check to its write without an await: it succeeds
\* exactly when the email was free at that instant, the record stored is
\* built from its own data, and a refused signup leaves the store alone.
C13_SignupStep ==
    \A user_data \in SignupRequests :
        (/\ reqs' = reqs + 1 /\ resp'.route = "signup"
         /\ signup(user_data)) =>
            IF user_data.email \in DOMAIN users_db
            THEN resp'.status = 400 /\ users_db' = users_db
            ELSE /\ resp'.status = 200
                 /\ users_db' = Put(users_db, user_data.email,
                                    User(uuid4(reqs + 1), user_data, now))

\* Two validate-api-key calls of one user suspended at their probes.
Racing(s, other) ==
    /\ s # other
    /\ inflight[s].route = "validate" /\ inflight[other].route = "validate"
    /\ inflight[s].email = inflight[other].email

\* When one of the two resumes, it writes its own candidate if its probe
\* returned and nothing if its probe raised; the other call stays suspended
\* with its own candidate, to write (or not) when its probe is over.
C13_RacingValidateStep ==
    \A s \in Slots, other \in Slots :
        Racing(s, other) =>
            /\ validate_api_key_resume(s, TRUE) =>
                   /\ users_db'[inflight[s].email].api_key = inflight[s].apiKey
                   /\ inflight'[other] = inflight[other]
            /\ validate_api_key_resume(s, FALSE) =>
                   /\ users_db' = users_db
                   /\ inflight'[other] = inflight[other]

\* Every change of a stored key is the write of one call whose probe
\* returned: the key becomes that call's candidate.
C13_KeyWrittenByProbedCall ==
    \A e \in DOMAIN users_db :
        users_db'[e].api_key # users_db[e].api_key =>
            \E s \in Slots :
                /\ validate_api_key_resume(s, TRUE)
                /\ inflight[s].email = e
                /\ users_db'[e].api_key = inflight[s].apiKey

\* C13: handlers interleave at their awaits only, so writes to one key of
\* the user store come one after the other: a signup succeeds exactly when
\* its email is free and stores its own record, and of validate-api-key
\* calls racing for one user the stored key is always the candidate of a
\* call whose probe returned, the last to resume, never one whose probe
\* raised.
C13_WritesSerialized ==
    [][C13_SignupStep /\ C13_RacingValidateStep /\ C13_KeyWrittenByProbedCall]_vars

\* The second request of the run, a validate-api-key, is still at its probe
\* while a later validate-api-key of the same user, with another candidate,
\* has been answered 200 and has its candidate stored.
C13_Witness ==
    /\ reqs = 3
    /\ resp.route = "validate" /\ resp.status = 200
    /\ \E s \in Slots :
           /\ inflight[s].route = "validate" /\ inflight[s].rid = 2
           /\ inflight[s].email = resp.email
           /\ users_db[resp.email].api_key \in CandidateKeys \ {inflight[s].apiKey}
(***************************************************************************)
(* C14                                                                     *)
(***************************************************************************)
C14_StoreStep ==
    \A s \in Slots :
        validate_api_key_resume(s, TRUE) =>
            inflight[s].llm_key = inflight[s].apiKey

\* C14: whenever validate-api-key answers success and stores a key, the
\* probe behind it was made with that candidate key, not with the system
\* key of the fallback.
C14_ProbeMadeWithCandidate == [][C14_StoreStep]_vars
====
